---- MODULE Spec2Model ----
(***************************************************************************)
(* SmartGrind (src/app.py): the timetable parser, the calendar builder,    *)
(* the "Generate Calendar" handler and the Gemini call wrapper.            *)
(*                                                                         *)
(* A text is a tuple of one-character strings, so that strip(), lower()    *)
(* and strptime() are computed character by character.  A tuple holding a  *)
(* single longer token (<<"Algorithms">>) is an opaque text.               *)
(***************************************************************************)
EXTENDS Integers, Sequences, FiniteSets, TLC

VARIABLES
    tt_file,      \* the uploaded CSV, or NoFile (st.file_uploader)
    start_week,   \* st.date_input: the anchor date, as a proleptic ordinal
    alarm_mins,   \* st.number_input: minutes, 0..1440
    parsed,       \* outcome of the last parse_timetable_csv call
    tt_ui,        \* what the Generate Calendar handler last showed
    GENAI_AVAILABLE, \* whether the import of google.genai succeeded
    llm_in,       \* the widgets of the summary and roadmap panels
    llm_ui        \* what the summary / roadmap handler last showed

vars == <<tt_file, start_week, alarm_mins, parsed, tt_ui, GENAI_AVAILABLE, llm_in, llm_ui>>

\* ------------------------------------------------------------------ bounds
MaxCols == 4
MaxRows == 2

\* ------------------------------------------------------------------- texts
UpperChars == <<"A","B","C","D","E","F","G","H","I","J","K","L","M",
                "N","O","P","Q","R","S","T","U","V","W","X","Y","Z">>
LowerChars == <<"a","b","c","d","e","f","g","h","i","j","k","l","m",
                "n","o","p","q","r","s","t","u","v","w","x","y","z">>
Whitespace == {" ", "\t", "\n", "\r"}

LowerTable ==
    [c \in {UpperChars[i] : i \in 1..26} |->
        LowerChars[CHOOSE i \in 1..26 : UpperChars[i] = c]]

\* str.lower(), one character
LowerChar(c) == IF c \in DOMAIN LowerTable THEN LowerTable[c] ELSE c

\* str.lower()
Lower(s) == [i \in 1..Len(s) |-> LowerChar(s[i])]

RECURSIVE LStrip(_)
LStrip(s) ==
    IF s # <<>> /\ Head(s) \in Whitespace THEN LStrip(Tail(s)) ELSE s

RECURSIVE RStrip(_)
RStrip(s) ==
    IF s # <<>> /\ s[Len(s)] \in Whitespace
    THEN RStrip(SubSeq(s, 1, Len(s) - 1))
    ELSE s

\* str.strip()
Strip(s) == RStrip(LStrip(s))

\* a missing cell, as pandas reads it (float nan)
NaN == <<"NaN">>

\* str(value) of a cell
Str(v) == IF v = NaN THEN <<"n","a","n">> ELSE v

\* pd.notna(value); None is not mapped to a cell and is handled by the caller
NotNa(v) == v # NaN

Range(s) == {s[i] : i \in 1..Len(s)}

SeqsUpTo(S, n) == UNION {[1..k -> S] : k \in 0..n}

\* ----------------------------------------------------- parse_timetable_csv
c_day      == <<"d","a","y">>
c_start    == <<"s","t","a","r","t">>
c_end      == <<"e","n","d">>
c_subject  == <<"s","u","b","j","e","c","t">>
c_location == <<"l","o","c","a","t","i","o","n">>
c_notes    == <<"n","o","t","e","s">>

\* required = ["day", "start", "end", "subject"]
required == <<c_day, c_start, c_end, c_subject>>

\* a renaming that forgets strip()
NormalizeColumnsNoStrip(cols) == [i \in 1..Len(cols) |-> Lower(cols[i])]

\* df.columns = [c.strip().lower() for c in df.columns]
NormalizeColumns(cols) == [i \in 1..Len(cols) |-> Lower(Strip(cols[i]))]

MissingMsg(col) ==
    <<"Missing required column: ">> \o col
        \o <<" (example CSV header: Day, Start, End, Subject, Location)">>

ValueError(msg) == [exc |-> "ValueError", msg |-> msg]

\* the for loop over required: raise at the first column that is absent
RECURSIVE CheckRequired(_, _)
CheckRequired(cols, i) ==
    IF i > Len(required) THEN [ok |-> TRUE]
    ELSE IF required[i] \notin Range(cols)
         THEN [ok |-> FALSE, error |-> ValueError(MissingMsg(required[i]))]
         ELSE CheckRequired(cols, i + 1)

\* parse_timetable_csv(file_buffer): the frame read by pd.read_csv, with its
\* columns renamed, or the error raised
parse_timetable_csv(file) ==
    LET cols == NormalizeColumns(file.columns)
        chk  == CheckRequired(cols, 1)
    IN  IF chk.ok
        THEN [ok |-> TRUE, df |-> [columns |-> cols, rows |-> file.rows]]
        ELSE chk

\* -------------------------------------------------------------- datetimes
\* a weekday numbered from Sunday = 0
WeekdaySundayFirst(d) == d % 7

\* a date is its proleptic Gregorian ordinal (date.toordinal()); ordinal 1 is
\* a Monday, so date.weekday() is (ordinal + 6) % 7
Weekday(d) == (d + 6) % 7

\* datetime.combine(date, time)
Combine(d, t) == [date |-> d, hour |-> t.hour, minute |-> t.minute]

\* datetime.min.time()
MinTime == [hour |-> 0, minute |-> 0]

\* datetime + timedelta(days = n)
PlusDays(dt, n) == [dt EXCEPT !.date = @ + n]

\* the instant of a naive datetime, in minutes
Minutes(dt) == dt.date * 1440 + dt.hour * 60 + dt.minute

\* ----------------------------------------------------------- time parsing
Digits == <<"0","1","2","3","4","5","6","7","8","9">>
IsDigit(c) == \E i \in 1..10 : Digits[i] = c
DigitVal(c) == (CHOOSE i \in 1..10 : Digits[i] = c) - 1

\* int() of a text of one or two digits
RECURSIVE IntOf(_)
IntOf(s) == IF s = <<>> THEN 0 ELSE IntOf(SubSeq(s, 1, Len(s) - 1)) * 10 + DigitVal(s[Len(s)])

Quoted(s) == <<"'">> \o s \o <<"'">>

\* datetime.strptime(s, "%H:%M").time(): %H is 2[0-3]|[0-1]\d|\d, %M is
\* [0-5]\d|\d, and nothing may remain after the match
strptime_HM(s) ==
    LET colon == IF Len(s) >= 2 /\ s[2] = ":" THEN 2
                 ELSE IF Len(s) >= 3 /\ s[3] = ":" THEN 3 ELSE 0
        hh    == SubSeq(s, 1, colon - 1)
        hOk   == /\ colon # 0
                 /\ \A i \in 1..Len(hh) : IsDigit(hh[i])
                 /\ IntOf(hh) <= 23
        rest  == SubSeq(s, colon + 1, Len(s))
        \* the minute field takes two characters when they read 00..59
        mLen  == IF Len(rest) >= 2 /\ IsDigit(rest[1]) /\ IsDigit(rest[2])
                    /\ DigitVal(rest[1]) <= 5 THEN 2
                 ELSE IF Len(rest) >= 1 /\ IsDigit(rest[1]) THEN 1 ELSE 0
        mm    == SubSeq(rest, 1, mLen)
    IN  IF ~hOk \/ mLen = 0
        THEN [ok |-> FALSE,
              error |-> ValueError(<<"time data ">> \o Quoted(s)
                                   \o <<" does not match format '%H:%M'">>)]
        ELSE IF mLen < Len(rest)
        THEN [ok |-> FALSE,
              error |-> ValueError(<<"unconverted data remains: ">>
                                   \o SubSeq(rest, mLen + 1, Len(rest)))]
        ELSE [ok |-> TRUE, time |-> [hour |-> IntOf(hh), minute |-> IntOf(mm)]]

\* the time texts of the model
t_0900   == <<"0","9",":","0","0">>
t_9am    == <<"9",":","0","0","A","M">>
t_1030   == <<"1","0",":","3","0">>
t_230pm  == <<"2",":","3","0","P","M">>
t_2599   == <<"2","5",":","9","9">>
t_9_5    == <<"9",":","5">>

\* pd.to_datetime(s).time() on the time texts of the model.  pandas is not
\* part of the repository; these are its outcomes on these texts: a clock
\* time with or without AM/PM is read on today's date, "25:99" and "nan"
\* (NaT has no time()) raise, and "9:5", which does not look like a time to
\* pandas, is read on the date 0001-01-01 and is out of the nanosecond range.
to_datetime_time(s) ==
    IF s = t_0900 THEN [ok |-> TRUE, time |-> [hour |-> 9, minute |-> 0]]
    ELSE IF s = t_9am THEN [ok |-> TRUE, time |-> [hour |-> 9, minute |-> 0]]
    ELSE IF s = t_1030 THEN [ok |-> TRUE, time |-> [hour |-> 10, minute |-> 30]]
    ELSE IF s = t_230pm THEN [ok |-> TRUE, time |-> [hour |-> 14, minute |-> 30]]
    ELSE [ok |-> FALSE]

\* the try / except around the two fields of a row: both fields by the
\* flexible parser, or else both fields by strptime
ParseTimes(start, end) ==
    LET fs == to_datetime_time(start)
        fe == to_datetime_time(end)
        ss == strptime_HM(start)
        se == strptime_HM(end)
    IN  IF fs.ok /\ fe.ok
        THEN [ok |-> TRUE, start_time |-> fs.time, end_time |-> fe.time]
        ELSE IF ~ss.ok THEN ss
        ELSE IF ~se.ok THEN se
        ELSE [ok |-> TRUE, start_time |-> ss.time, end_time |-> se.time]

\* -------------------------------------------------- create_calendar_from_df
monday    == <<"m","o","n","d","a","y">>
tuesday   == <<"t","u","e","s","d","a","y">>
wednesday == <<"w","e","d","n","e","s","d","a","y">>
thursday  == <<"t","h","u","r","s","d","a","y">>
friday    == <<"f","r","i","d","a","y">>
saturday  == <<"s","a","t","u","r","d","a","y">>
sunday    == <<"s","u","n","d","a","y">>

WeekdayNames == <<monday, tuesday, wednesday, thursday, friday, saturday, sunday>>

\* day in weekday_map
InWeekdayMap(day) == \E i \in 1..7 : WeekdayNames[i] = day

\* weekday_map[day]
weekday_map(day) == (CHOOSE i \in 1..7 : WeekdayNames[i] = day) - 1

\* 'col' in row
HasColumn(df, col) == col \in Range(df.columns)

\* row[col], for a column label that occurs once
RowGet(df, row, col) ==
    row[CHOOSE j \in 1..Len(df.columns) : df.columns[j] = col]

\* an attribute of Event that was never assigned
None == <<"None">>

\* Event(): ics gives every new event a uid of its own
NewUid(made) == made + 1

\* a set whose elements are equal when their title and times are equal
AddEventByValue(events, ev) ==
    IF \E e \in events : e.name = ev.name /\ e.begin = ev.begin /\ e.end = ev.end
    THEN events
    ELSE events \cup {ev}

\* cal.events.add(ev): events is a set, and two events are the same element
\* when their uids are equal
AddEvent(events, ev) ==
    IF \E e \in events : e.uid = ev.uid THEN events ELSE events \cup {ev}

\* a trigger without the minus sign
TriggerAfter(alarm_minutes) == alarm_minutes

\* timedelta(minutes = -alarm_minutes), in minutes relative to the start
Trigger(alarm_minutes) == 0 - alarm_minutes

\* DisplayAlarm(trigger = trigger, display_text = f"Reminder: {ev.name}")
DisplayAlarm(trigger, name) ==
    [trigger |-> trigger, display_text |-> <<"Reminder: ">> \o name]

\* an optional column copied without the pd.notna test
OptionalNoNaCheck(df, row, col) ==
    IF HasColumn(df, col) THEN Str(RowGet(df, row, col)) ELSE None

\* row.get('location') if 'location' in row else None, then pd.notna(loc)
Optional(df, row, col) ==
    IF HasColumn(df, col) /\ NotNa(RowGet(df, row, col))
    THEN Str(RowGet(df, row, col))
    ELSE None

\* ev.end = dt_end.  The setter belongs to the ics package, which is not part
\* of the repository: endChecked says whether the installed Event rejects an
\* end that lies before its begin (ics 0.7 does, with this message).
EndRejected(dt_start, dt_end, endChecked) ==
    endChecked /\ Minutes(dt_end) < Minutes(dt_start)

\* a reordering builder: the earlier of the two times becomes the start
EventTimesOrdered(d, times) ==
    LET a == Combine(d, times.start_time)
        b == Combine(d, times.end_time)
    IN  IF Minutes(b) < Minutes(a) THEN [begin |-> b, end |-> a]
        ELSE [begin |-> a, end |-> b]

\* dt_start = datetime.combine(event_date.date(), start_time), and dt_end
EventTimes(d, times) ==
    [begin |-> Combine(d, times.start_time), end |-> Combine(d, times.end_time)]

\* the loop body after the weekday check: "raise", or the event that is
\* added to the calendar; made counts the Event() calls so far
RowEvent(df, row, day, made, start_week_date, alarm_minutes, endChecked) ==
    LET mon        == PlusDays(start_week_date, 0 - Weekday(start_week_date.date))
        event_date == PlusDays(mon, weekday_map(day))
        times      == ParseTimes(Str(RowGet(df, row, c_start)),
                                 Str(RowGet(df, row, c_end)))
    IN  IF ~times.ok THEN [step |-> "raise", error |-> times.error]
        ELSE
        LET dt   == EventTimes(event_date.date, times)
            name == Str(RowGet(df, row, c_subject))
        IN  IF EndRejected(dt.begin, dt.end, endChecked)
            THEN [step |-> "raise",
                  error |-> ValueError(<<"End must be after begin">>)]
            ELSE [step |-> "event",
                  ev |-> [uid         |-> NewUid(made),
                          name        |-> name,
                          location    |-> Optional(df, row, c_location),
                          description |-> Optional(df, row, c_notes),
                          begin       |-> dt.begin,
                          end         |-> dt.end,
                          alarms      |-> <<DisplayAlarm(Trigger(alarm_minutes), name)>>]]

\* a loop body without the weekday check: weekday_map[day] raises KeyError
RowStepNoCheck(df, row, made, start_week_date, alarm_minutes, endChecked) ==
    LET day == Lower(Strip(Str(RowGet(df, row, c_day))))
    IN  IF ~InWeekdayMap(day)
        THEN [step |-> "raise", error |-> [exc |-> "KeyError", msg |-> Quoted(day)]]
        ELSE RowEvent(df, row, day, made, start_week_date, alarm_minutes, endChecked)

\* the body of the for loop for one row: "skip" (continue), or RowEvent
RowStep(df, row, made, start_week_date, alarm_minutes, endChecked) ==
    LET day == Lower(Strip(Str(RowGet(df, row, c_day))))
    IN  IF ~InWeekdayMap(day) THEN [step |-> "skip"]
        ELSE RowEvent(df, row, day, made, start_week_date, alarm_minutes, endChecked)

\* a builder that returns the events made before the row that raised
RECURSIVE BuildFromPartial(_, _, _, _, _, _, _)
BuildFromPartial(df, i, events, made, start_week_date, alarm_minutes, endChecked) ==
    IF i > Len(df.rows) THEN [ok |-> TRUE, ics_bytes |-> [events |-> events]]
    ELSE
    LET r == RowStep(df, df.rows[i], made, start_week_date, alarm_minutes,
                     endChecked)
    IN  IF r.step = "skip"
        THEN BuildFromPartial(df, i + 1, events, made, start_week_date,
                              alarm_minutes, endChecked)
        ELSE IF r.step = "raise" THEN [ok |-> TRUE, ics_bytes |-> [events |-> events]]
        ELSE BuildFromPartial(df, i + 1, AddEvent(events, r.ev), made + 1,
                              start_week_date, alarm_minutes, endChecked)

\* for _, row in df.iterrows(): ... ; return cal.serialize().encode('utf-8')
\* (the bytes are kept as the set of events they serialize)
RECURSIVE BuildFrom(_, _, _, _, _, _, _)
BuildFrom(df, i, events, made, start_week_date, alarm_minutes, endChecked) ==
    IF i > Len(df.rows) THEN [ok |-> TRUE, ics_bytes |-> [events |-> events]]
    ELSE
    LET r == RowStep(df, df.rows[i], made, start_week_date, alarm_minutes,
                     endChecked)
    IN  IF r.step = "skip"
        THEN BuildFrom(df, i + 1, events, made, start_week_date, alarm_minutes,
                       endChecked)
        ELSE IF r.step = "raise" THEN [ok |-> FALSE, error |-> r.error]
        ELSE BuildFrom(df, i + 1, AddEvent(events, r.ev), made + 1,
                       start_week_date, alarm_minutes, endChecked)

create_calendar_from_df(df, start_week_date, alarm_minutes, endChecked) ==
    BuildFrom(df, 1, {}, 0, start_week_date, alarm_minutes, endChecked)

\* ------------------------------------------- the Generate Calendar handler
NoFile == [columns |-> <<>>, rows |-> <<>>, uploaded |-> FALSE]

Csv(columns, rows) == [columns |-> columns, rows |-> rows, uploaded |-> TRUE]

Idle == [kind |-> "idle"]

StError(message) == [kind |-> "error", message |-> message]

\* st.success(...) followed by st.download_button(..., data = ics_bytes, ...)
StDownload(ics_bytes) ==
    [kind |-> "success",
     message |-> <<"Calendar generated - download and import into Google Calendar or any calendar app.">>,
     download |-> ics_bytes]

\* if st.button("Generate Calendar"): the whole handler, for one outcome of
\* the Event.end setter
CalendarHandler(file, start_date, alarm, endChecked) ==
    IF ~file.uploaded
    THEN StError(<<"Please upload a CSV timetable first.">>)
    ELSE
    LET p == parse_timetable_csv(file)
    IN  IF ~p.ok
        THEN StError(<<"Failed to parse timetable: ">> \o p.error.msg)
        ELSE
        LET b == create_calendar_from_df(p.df, Combine(start_date, MinTime),
                                         alarm, endChecked)
        IN  IF ~b.ok
            THEN StError(<<"Failed to parse timetable: ">> \o b.error.msg)
            ELSE StDownload(b.ics_bytes)

\* ------------------------------------------------------------- call_gemini
\* What the world outside the process does during one call:
\*   secrets: st.secrets.get("GEMINI_API_KEY") "raises" (no secrets file can
\*            be read), or gives "none", "empty" or a "key";
\*   sdk:     generate_content gives a response with "text", a response
\*            with "no_text" attribute, or "raises";
\*   rest:    "import_error" (requests missing), "post_raises", "non_200",
\*            "not_json" (r.json() raises), "no_candidates" (JSON of another
\*            shape) or "ok";
\*   reply:   the text the model answers with.
Secrets == {"raises", "none", "empty", "key"}
SdkOutcomes == {"text", "no_text", "raises"}
RestOutcomes == {"import_error", "post_raises", "non_200", "not_json",
                 "no_candidates", "ok"}
ReplyPool ==
    { <<"SUMMARY", "\n", "- point", "TIPS", "\n", "- tip">>,
      <<"Hello! How can I help?">> }

Envs == [secrets : Secrets, sdk : SdkOutcomes, rest : RestOutcomes,
         reply : ReplyPool]

Returned(request, value) == [raised |-> FALSE, request |-> request, value |-> value]
Raised(error) == [raised |-> TRUE, error |-> error]

NoRequest == [sent |-> FALSE]
Request(via, prompt, max_output_tokens) ==
    [sent |-> TRUE, via |-> via, prompt |-> prompt,
     max_output_tokens |-> max_output_tokens]

\* call_gemini(prompt, max_output_tokens): the string returned, or the
\* exception that leaves the function
call_gemini(prompt, max_output_tokens, available, env) ==
    IF env.secrets = "raises"
    THEN Raised(<<"StreamlitSecretNotFoundError">>)
    ELSE IF env.secrets \in {"none", "empty"}
    THEN Returned(NoRequest,
                  <<"[No Gemini API key found. Add it in .streamlit/secrets.toml as GEMINI_API_KEY.]">>)
    ELSE IF available
    THEN LET req == Request("sdk", prompt, max_output_tokens)
         IN  IF env.sdk = "raises"
             THEN Returned(req, <<"[Gemini call failed: ", "e", "]">>)
             ELSE IF env.sdk = "text" THEN Returned(req, env.reply)
             ELSE Returned(req, <<"str(response)">>)
    ELSE IF env.rest = "import_error"
    THEN Returned(NoRequest, <<"[REST fallback also failed: ", "e", "]">>)
    ELSE LET req == Request("rest", prompt, max_output_tokens)
         IN  IF env.rest \in {"post_raises", "not_json"}
             THEN Returned(req, <<"[REST fallback also failed: ", "e", "]">>)
             ELSE IF env.rest = "non_200"
             THEN Returned(req, <<"[REST Gemini call failed: ", "status", " - ", "text", "]">>)
             ELSE IF env.rest = "ok" THEN Returned(req, env.reply)
             ELSE Returned(req, <<"json.dumps(data)">>)

\* max_output_tokens: int = 512
DefaultMaxOutputTokens == 512

\* generate_roadmap passes max_output_tokens = 800
RoadmapMaxOutputTokens == 800

HELLO_WORDS ==
    {<<"h","e","l","l","o">>,
     <<"h","i">>,
     <<"h","i","i">>,
     <<"h","i","i","i">>,
     <<"h","i","i","i","i">>,
     <<"h","e","l","o">>,
     <<"h","e","l","o","o">>,
     <<"h","e","l","l","o","o">>,
     <<"h","e","y">>,
     <<"h","e","y","y">>,
     <<"h","e","y","y","y">>,
     <<"h","y","a">>,
     <<"h","i","y","a">>,
     <<"y","o">>,
     <<"s","u","p">>,
     <<"w","h","a","t","s","u","p">>,
     <<"w","h","a","t","'","s"," ","u","p">>,
     <<"w","a","s","s","u","p">>,
     <<"w","a","s","s","u","p","?">>,
     <<"h","e","y"," ","t","h","e","r","e">>,
     <<"h","o","l","a">>,
     <<"n","a","m","a","s","t","e">>,
     <<"h","l","o">>,
     <<"h","l","o","o">>,
     <<"h","l","w">>,
     <<"h","l","w","o">>,
     <<"h","a","i">>,
     <<"h","a","i","i">>,
     <<"h","a","i","i","i">>,
     <<"g","r","e","e","t","i","n","g","s">>,
     <<"g","o","o","d"," ","m","o","r","n","i","n","g">>,
     <<"g","o","o","d"," ","a","f","t","e","r","n","o","o","n">>,
     <<"g","o","o","d"," ","e","v","e","n","i","n","g">>}

\* summarize_text(text, style)
summarize_text(text, style, available, env) ==
    LET user_text == Lower(Strip(text))
    IN  IF user_text \in HELLO_WORDS
        THEN call_gemini(<<"Hey! How can I help you today?">>,
                         DefaultMaxOutputTokens, available, env)
        ELSE
        LET style_prompt ==
                IF style = "elaborate"
                THEN <<"Explain this like I'm 5 years old. Use simple words and analogies.">>
                ELSE <<"Summarize this for a last-minute exam revision. Be concise.">>
            prompt == <<"You are an expert study coach. ">> \o style_prompt
                      \o <<"\n\n", "Format the output ... TIPS\n\n---> tips here\n\n", "Notes:\n">>
                      \o text
        IN  call_gemini(prompt, DefaultMaxOutputTokens, available, env)

\* generate_roadmap(goal, timeframe_weeks, background)
generate_roadmap(goal, timeframe_weeks, background, available, env) ==
    LET prompt == <<"You are an expert study/career mentor. Create a clean, distraction-free ">>
                  \o <<ToString(timeframe_weeks)>> \o <<"-week roadmap for a student whose main goal is: ">>
                  \o goal \o <<".", "Include: ...", "\nStudent background: ">>
                  \o background \o <<"\nOutput: ...">>
    IN  call_gemini(prompt, RoadmapMaxOutputTokens, available, env)

\* -------------------------------------- the summary and roadmap handlers
\* an exception that no handler catches ends the script run
StException(error) == [kind |-> "exception", error |-> error]

\* "TIPS" in summary, on the tokens of the text
HasTips(summary) == "TIPS" \in Range(summary)

\* summary.split("TIPS")[-1]
AfterLastTips(summary) ==
    LET last == CHOOSE i \in 1..Len(summary) :
                    /\ summary[i] = "TIPS"
                    /\ \A j \in (i + 1)..Len(summary) : summary[j] # "TIPS"
    IN  SubSeq(summary, last + 1, Len(summary))

StyleConcise == <<"Concise", " for last-minute revision">>
StyleEli5 == <<"Explain like I'm 5 years kid.">>

\* if run_summary: ...
SummaryHandler(in, available, env) ==
    IF in.raw_text = <<>> \/ Strip(in.raw_text) = <<>>
    THEN StError(<<"Please paste your notes or upload a file first.">>)
    ELSE
    LET prompt_style == IF "Concise" \in Range(in.style) THEN "concise" ELSE "elaborate"
        r == summarize_text(in.raw_text, prompt_style, available, env)
    IN  IF r.raised THEN StException(r.error)
        ELSE [kind |-> "summary", request |-> r.request, value |-> r.value,
              tips |-> IF HasTips(r.value) THEN AfterLastTips(r.value) ELSE None]

\* if st.button("Generate roadmap"): ...
RoadmapHandler(in, available, env) ==
    IF Strip(in.goal) = <<>>
    THEN StError(<<"Please enter a clear goal">>)
    ELSE
    LET r == generate_roadmap(in.goal, in.weeks, in.background, available, env)
    IN  IF r.raised THEN StException(r.error)
        ELSE [kind |-> "roadmap", request |-> r.request, value |-> r.value]

\* ------------------------------------------------------------ the inputs
\* header texts as they stand in the first line of the file
h_Day         == <<"D","a","y">>
h_day_sp      == <<" ","d","a","y"," ">>
h_START       == <<"S","T","A","R","T">>
h_start       == <<"s","t","a","r","t">>
h_End         == <<"E","n","d">>
h_END_tab     == <<"E","N","D","\t">>
h_Subject     == <<"S","u","b","j","e","c","t">>
h_SUBJECT_sp  == <<" "," ","S","U","B","J","E","C","T">>
h_Location    == <<"L","o","c","a","t","i","o","n">>
h_Notes       == <<"N","o","t","e","s">>
h_Days        == <<"D","a","y","s">>
h_Da_y        == <<"D","a"," ","y">>

HeaderPool == {h_Day, h_day_sp, h_START, h_End, h_END_tab, h_Subject,
               h_SUBJECT_sp, h_Location, h_Days, h_Da_y}

\* the headers pd.read_csv can hand over: at least one column, and no text
\* twice (read_csv renames a repeated header)
Headers ==
    {h \in SeqsUpTo(HeaderPool, MaxCols) :
        /\ Len(h) >= 1
        /\ \A i, j \in 1..Len(h) : h[i] = h[j] => i = j}

\* the data rows of a file of the parser check: its cells are not looked at
PlainRows(columns, n) ==
    [i \in 1..n |-> [j \in 1..Len(columns) |-> <<"r" \o ToString(i) \o "c" \o ToString(j)>>]]

\* day cells
d_Monday       == <<"M","o","n","d","a","y">>
d_TUESDAY_sp   == <<" ","T","U","E","S","D","A","Y"," ">>
d_wednesday    == <<"w","e","d","n","e","s","d","a","y">>
d_Thursday_tab == <<"T","h","u","r","s","d","a","y","\t">>
d_FRIDAY       == <<"F","R","I","D","A","Y">>
d_Saturday     == <<"S","a","t","u","r","d","a","y">>
d_sunday_sp    == <<" "," ","s","u","n","d","a","y">>
d_Funday       == <<"F","u","n","d","a","y">>

Row(day, start, end, subject, location, notes) ==
    [day |-> day, start |-> start, end |-> end, subject |-> subject,
     location |-> location, notes |-> notes]

\* the timetable lines the files are made of
RowPool ==
    { Row(d_Monday,       t_0900,  t_1030,  <<"Algorithms">>, <<"Room 4">>, <<"Bring laptop">>),
      Row(d_TUESDAY_sp,   t_9am,   t_1030,  <<"Maths">>,      NaN,          NaN),
      Row(d_wednesday,    t_230pm, t_9am,   <<"Databases">>,  <<"Lab">>,    NaN),
      Row(d_Thursday_tab, t_1030,  t_1030,  <<"Physics">>,    NaN,          <<"Quiz">>),
      Row(d_FRIDAY,       t_9_5,   t_1030,  <<"Revision">>,   NaN,          NaN),
      Row(d_Saturday,     t_0900,  t_230pm, <<"Chemistry">>,  <<"Home">>,   <<"Read">>),
      Row(d_sunday_sp,    t_9am,   t_0900,  <<"Rest">>,       NaN,          NaN),
      Row(d_Monday,       t_230pm, t_9_5,   <<"Networks">>,   <<"Lab">>,    NaN),
      Row(d_TUESDAY_sp,   t_2599,  t_1030,  <<"Late">>,       NaN,          NaN),
      Row(d_Funday,       t_2599,  t_2599,  <<"Party">>,      <<"Pub">>,    NaN),
      Row(NaN,            t_0900,  t_1030,  <<"Nothing">>,    NaN,          NaN) }

\* the headers of the files of the calendar check: all columns, the required
\* ones only, another order with other spellings, and one without End
Layouts ==
    { <<h_Day, h_START, h_End, h_Subject, h_Location, h_Notes>>,
      <<h_Day, h_START, h_End, h_Subject>>,
      <<h_SUBJECT_sp, h_Location, h_END_tab, h_start, h_day_sp>>,
      <<h_Day, h_START, h_Subject, h_Notes>> }

\* the line of the file that holds a timetable line under a header; a cell
\* under a header that is none of the six columns is empty
CsvRow(columns, r) ==
    [j \in 1..Len(columns) |->
        LET c == Lower(Strip(columns[j]))
        IN  IF c = c_day THEN r.day
            ELSE IF c = c_start THEN r.start
            ELSE IF c = c_end THEN r.end
            ELSE IF c = c_subject THEN r.subject
            ELSE IF c = c_location THEN r.location
            ELSE IF c = c_notes THEN r.notes
            ELSE NaN]

CsvFiles ==
    { Csv(h, [i \in 1..Len(rs) |-> CsvRow(h, rs[i])]) :
        h \in Layouts, rs \in SeqsUpTo(RowPool, MaxRows) }

\* 2026-10-31 (a Saturday) to 2026-11-06 (a Friday): two weeks are met
AnchorDates == 739920..739926

\* st.number_input(min_value = 0, max_value = 1440, value = 30)
AlarmChoices == {0, 30}

NotCalled == [called |-> FALSE]

\* the notes and goals typed into the page
RawTexts ==
    { <<>>, <<" ", "\n">>, <<" ","H","i","i"," ">>, <<"h","e","y"," ","t","h","e","r","e">>,
      <<"Photosynthesis turns light into sugar.">> }
Goals == { <<>>, <<" ">>, <<"Finish ML portfolio">> }
Backgrounds == { <<>>, <<"Python, 2h per day">> }

\* st.slider(min_value = 4, max_value = 52, value = 12)
WeekChoices == {4, 12, 52}

LlmInputs == [raw_text : RawTexts, style : {StyleConcise, StyleEli5},
              goal : Goals, background : Backgrounds, weeks : WeekChoices]

LlmIdle ==
    [raw_text |-> <<>>, style |-> StyleConcise, goal |-> <<>>,
     background |-> <<>>, weeks |-> 12]

\* ------------------------------------------------------------ the actions
\* a click on "Generate Calendar"
GenerateCalendar ==
    /\ \E endChecked \in BOOLEAN :
          tt_ui' = CalendarHandler(tt_file, start_week, alarm_mins, endChecked)
    /\ UNCHANGED <<tt_file, start_week, alarm_mins, parsed, GENAI_AVAILABLE,
                   llm_in, llm_ui>>

\* a call of parse_timetable_csv on the uploaded file
ParseTimetable ==
    /\ tt_file.uploaded
    /\ parsed' = [called |-> TRUE, result |-> parse_timetable_csv(tt_file)]
    /\ UNCHANGED <<tt_file, start_week, alarm_mins, tt_ui, GENAI_AVAILABLE,
                   llm_in, llm_ui>>

\* a click on "Generate Summary"
GenerateSummary ==
    /\ \E env \in Envs : llm_ui' = SummaryHandler(llm_in, GENAI_AVAILABLE, env)
    /\ UNCHANGED <<tt_file, start_week, alarm_mins, parsed, tt_ui,
                   GENAI_AVAILABLE, llm_in>>

\* a click on "Generate roadmap"
GenerateRoadmap ==
    /\ \E env \in Envs : llm_ui' = RoadmapHandler(llm_in, GENAI_AVAILABLE, env)
    /\ UNCHANGED <<tt_file, start_week, alarm_mins, parsed, tt_ui,
                   GENAI_AVAILABLE, llm_in>>

\* ------------------------------------------------------ the specifications
\* the timetable panel: a file (or none), an anchor date and an alarm
Init ==
    /\ tt_file \in CsvFiles \cup {NoFile}
    /\ start_week \in AnchorDates
    /\ alarm_mins \in AlarmChoices
    /\ parsed = NotCalled
    /\ tt_ui = Idle
    /\ GENAI_AVAILABLE = TRUE
    /\ llm_in = LlmIdle
    /\ llm_ui = Idle

Next == GenerateCalendar

Spec == Init /\ [][Next]_vars

\* the parser alone, on every header of up to MaxCols texts of the pool
InitParse ==
    /\ \E h \in Headers, n \in {0, 2} : tt_file = Csv(h, PlainRows(h, n))
    /\ start_week = 739922
    /\ alarm_mins = 30
    /\ parsed = NotCalled
    /\ tt_ui = Idle
    /\ GENAI_AVAILABLE = TRUE
    /\ llm_in = LlmIdle
    /\ llm_ui = Idle

NextParse == ParseTimetable

SpecParse == InitParse /\ [][NextParse]_vars

\* the summary and roadmap panels
InitGemini ==
    /\ tt_file = NoFile
    /\ start_week = 739922
    /\ alarm_mins = 30
    /\ parsed = NotCalled
    /\ tt_ui = Idle
    /\ GENAI_AVAILABLE \in BOOLEAN
    /\ llm_in \in LlmInputs
    /\ llm_ui = Idle

NextGemini == GenerateSummary \/ GenerateRoadmap

SpecGemini == InitGemini /\ [][NextGemini]_vars

\* ================================================================ claims
\* What the texts of the input pools mean, written down independently of the
\* program's own normalisation.

\* the column a header text stands for
Denotes(h) ==
    IF h \in {h_Day, h_day_sp} THEN c_day
    ELSE IF h \in {h_START, h_start} THEN c_start
    ELSE IF h \in {h_End, h_END_tab} THEN c_end
    ELSE IF h \in {h_Subject, h_SUBJECT_sp} THEN c_subject
    ELSE IF h = h_Location THEN c_location
    ELSE IF h = h_Notes THEN c_notes
    ELSE <<"other">>

\* the weekday index a day cell stands for, -1 when it names no weekday
DayIndex(d) ==
    IF d = d_Monday THEN 0
    ELSE IF d = d_TUESDAY_sp THEN 1
    ELSE IF d = d_wednesday THEN 2
    ELSE IF d = d_Thursday_tab THEN 3
    ELSE IF d = d_FRIDAY THEN 4
    ELSE IF d = d_Saturday THEN 5
    ELSE IF d = d_sunday_sp THEN 6
    ELSE -1

\* the time of day a time text stands for
ClockOf(t) ==
    IF t \in {t_0900, t_9am} THEN [hour |-> 9, minute |-> 0]
    ELSE IF t = t_1030 THEN [hour |-> 10, minute |-> 30]
    ELSE IF t = t_230pm THEN [hour |-> 14, minute |-> 30]
    ELSE IF t = t_9_5 THEN [hour |-> 9, minute |-> 5]
    ELSE [hour |-> -1, minute |-> -1]

FileHas(c) == \E j \in 1..Len(tt_file.columns) : Denotes(tt_file.columns[j]) = c

\* the cell of line i of the file under column c
Cell(i, c) ==
    tt_file.rows[i][CHOOSE j \in 1..Len(tt_file.columns) :
                        Denotes(tt_file.columns[j]) = c]

MissingColumns == {c \in Range(required) : ~FileHas(c)}

FirstMissing ==
    required[CHOOSE i \in 1..Len(required) :
                /\ required[i] \in MissingColumns
                /\ \A j \in 1..(i - 1) : required[j] \notin MissingColumns]

\* the column an error message names as missing
NamedColumn(msg) == SubSeq(msg, 2, Len(msg) - 1)

\* the lines of the file whose day names a weekday, in file order
Recognised ==
    LET Named(i) == DayIndex(Cell(i, c_day)) >= 0
    IN  SelectSeq([i \in 1..Len(tt_file.rows) |-> i], Named)

\* the handler ran on a file that has the four required columns
Built == tt_ui.kind # "idle" /\ tt_file.uploaded /\ MissingColumns = {}

Succeeded == Built /\ tt_ui.kind = "success"

Events == tt_ui.download.events

\* the event made for the k-th recognised line
EventOf(k) == CHOOSE e \in Events : e.uid = k

\* the file without the lines whose day names no weekday
WithoutUnrecognised ==
    [tt_file EXCEPT !.rows = [k \in 1..Len(Recognised) |-> tt_file.rows[Recognised[k]]]]

\* a field that neither parser accepts
RejectedByBoth(t) == ~to_datetime_time(Str(t)).ok /\ ~strptime_HM(Str(t)).ok

FailedPrefix == <<"Failed to parse timetable: ">>

\* C1 (as amended): when a required column is missing from the header,
\* parse_timetable_csv fails and its message names the first missing column
\* in the order day, start, end, subject; when all four are present, in any
\* spelling and order, it returns the rows unchanged and in order.
C1_FirstMissingNamed ==
    parsed.called =>
        /\ MissingColumns # {} =>
              /\ ~parsed.result.ok
              /\ parsed.result.error.exc = "ValueError"
              /\ NamedColumn(parsed.result.error.msg) = FirstMissing
        /\ MissingColumns = {} =>
              /\ parsed.result.ok
              /\ parsed.result.df.rows = tt_file.rows

\* C1 as stated: the message names every missing required column.
C1_EveryMissingNamed ==
    parsed.called =>
        /\ \A c \in MissingColumns :
              /\ ~parsed.result.ok
              /\ NamedColumn(parsed.result.error.msg) = c
        /\ MissingColumns = {} =>
              /\ parsed.result.ok
              /\ parsed.result.df.rows = tt_file.rows

\* two required columns are missing and the parser has failed
C1_Witness ==
    /\ parsed.called
    /\ MissingColumns = {c_start, c_subject}
    /\ ~parsed.result.ok

\* C2: lines whose day names no weekday change nothing: the handler shows
\* what it shows for the file without them, so they give no event and never
\* make the build fail, whatever their times are.
C2_UnrecognisedSkipped ==
    Built =>
        tt_ui \in {CalendarHandler(WithoutUnrecognised, start_week, alarm_mins, b) :
                      b \in BOOLEAN}

\* a build succeeded on a file that holds a line with an unknown day and
\* unparseable times, and a line that gave an event
C2_Witness ==
    /\ Succeeded
    /\ \E i \in 1..Len(tt_file.rows) :
          /\ DayIndex(Cell(i, c_day)) < 0
          /\ RejectedByBoth(Cell(i, c_start))
    /\ Events # {}
    /\ \A e \in Events : e.name # <<"Party">>

\* C3: after a successful build the calendar holds exactly one event per line
\* whose day names a weekday, also for identical lines, and no other event.
C3_OneEventPerRecognisedRow ==
    Succeeded =>
        /\ Cardinality(Events) = Len(Recognised)
        /\ \A e \in Events : e.uid \in 1..Len(Recognised)
        /\ \A k \in 1..Len(Recognised) :
              /\ Cardinality({e \in Events : e.uid = k}) = 1
              /\ EventOf(k).name = Cell(Recognised[k], c_subject)

\* two identical recognised lines gave two events
C3_Witness ==
    /\ Succeeded
    /\ Len(tt_file.rows) = 2
    /\ tt_file.rows[1] = tt_file.rows[2]
    /\ Len(Recognised) = 2
    /\ Cardinality(Events) = 2

\* 2026-11-02 is a Monday
IsMonday(d) == (d - 739922) % 7 = 0

\* the Monday on or before the anchor
WeekStart == CHOOSE d \in (start_week - 6)..start_week : IsMonday(d)

\* C4: the event of a line with weekday index i is dated weekStart + i: in
\* the anchor's Monday-to-Sunday week and on the weekday the line names.
C4_EventDate ==
    Succeeded =>
        \A k \in 1..Len(Recognised) :
            LET i == DayIndex(Cell(Recognised[k], c_day))
                e == EventOf(k)
            IN  /\ e.begin.date = WeekStart + i
                /\ e.end.date = WeekStart + i
                /\ e.begin.date \in WeekStart..(WeekStart + 6)
                /\ start_week \in WeekStart..(WeekStart + 6)
                /\ (e.begin.date - 739922) % 7 = i

\* the anchor is a Sunday and a Monday line gave an event six days before it
C4_Witness ==
    /\ Succeeded
    /\ IsMonday(start_week + 1)
    /\ \E k \in 1..Len(Recognised) :
          /\ DayIndex(Cell(Recognised[k], c_day)) = 0
          /\ EventOf(k).begin.date = start_week - 6

\* C5: when a line whose day names a weekday has a start or end that no
\* parser accepts, the build raises: the handler shows the error and offers
\* no download, not even of the events of earlier lines.  A build gives the
\* events of all recognised lines or none.
C5_AllOrNothing ==
    Built =>
        /\ tt_ui.kind \in {"success", "error"}
        /\ (\E k \in 1..Len(Recognised) :
               \/ RejectedByBoth(Cell(Recognised[k], c_start))
               \/ RejectedByBoth(Cell(Recognised[k], c_end)))
           => tt_ui.kind = "error"
        /\ tt_ui.kind = "error" =>
              /\ "download" \notin DOMAIN tt_ui
              /\ SubSeq(tt_ui.message, 1, 1) = FailedPrefix
        /\ tt_ui.kind = "success" => Cardinality(Events) = Len(Recognised)

\* the first line is a good Monday line, the second has the start "25:99",
\* and the handler showed an error
C5_Witness ==
    /\ Built
    /\ Len(tt_file.rows) = 2
    /\ Cell(1, c_subject) = <<"Algorithms">>
    /\ Cell(2, c_subject) = <<"Late">>
    /\ tt_ui.kind = "error"

\* C6: every event carries exactly one alarm, whose trigger lies alarm_mins
\* minutes before the start of the event and whose text is "Reminder: " and
\* the event's title.
C6_OneAlarmBeforeStart ==
    Succeeded =>
        \A e \in Events :
            /\ Len(e.alarms) = 1
            /\ Minutes(e.begin) + e.alarms[1].trigger = Minutes(e.begin) - alarm_mins
            /\ e.alarms[1].display_text = <<"Reminder: ">> \o e.name

\* an event with an alarm 30 minutes before its start
C6_Witness ==
    /\ Succeeded
    /\ alarm_mins = 30
    /\ \E e \in Events : e.alarms[1].trigger = -30

\* every recognised line has times that the time parsing of the loop accepts
AllTimesParsed ==
    \A k \in 1..Len(Recognised) :
        ParseTimes(Str(Cell(Recognised[k], c_start)),
                   Str(Cell(Recognised[k], c_end))).ok

ClockMinutes(t) == ClockOf(t).hour * 60 + ClockOf(t).minute

EndsBeforeStart(i) == ClockMinutes(Cell(i, c_end)) < ClockMinutes(Cell(i, c_start))

\* every event carries the start and end of its line, as given, on its date
TimesAsGiven ==
    \A k \in 1..Len(Recognised) :
        LET i == Recognised[k]
            d == WeekStart + DayIndex(Cell(i, c_day))
        IN  /\ EventOf(k).begin = Combine(d, ClockOf(Cell(i, c_start)))
            /\ EventOf(k).end = Combine(d, ClockOf(Cell(i, c_end)))

Expected(i, c) == IF FileHas(c) /\ Cell(i, c) # NaN THEN Cell(i, c) ELSE None

\* C8: an event has a location exactly when the file has a location column
\* and the line's cell in it is not null, and then it is that cell; likewise
\* the description for notes.  An empty cell or an absent column leaves the
\* field unset: it is neither the empty text nor "nan".
C8_OptionalFields ==
    Succeeded =>
        \A k \in 1..Len(Recognised) :
            LET e == EventOf(k)
            IN  /\ e.location = Expected(Recognised[k], c_location)
                /\ e.description = Expected(Recognised[k], c_notes)
                /\ e.location \notin {<<>>, <<"n","a","n">>}
                /\ e.description \notin {<<>>, <<"n","a","n">>}

\* the file has both optional columns; an event has a location and no
\* description because the notes cell of its line is empty
C8_Witness ==
    /\ Succeeded
    /\ FileHas(c_location) /\ FileHas(c_notes)
    /\ \E k \in 1..Len(Recognised) :
          /\ Cell(Recognised[k], c_notes) = NaN
          /\ EventOf(k).location = <<"Lab">>
          /\ EventOf(k).description = None

\* the handler showed an error raised by strptime
TimeFormatError ==
    /\ tt_ui.kind = "error"
    /\ Len(tt_ui.message) >= 2
    /\ tt_ui.message[2] \in {"time data ", "unconverted data remains: "}

\* C9 as stated: each field is accepted when the flexible parser or strptime
\* accepts it, so the build fails with a time-format error only when some
\* field of a recognised line is rejected by both.
C9_PerFieldFallback ==
    Built =>
        (TimeFormatError =>
            \E k \in 1..Len(Recognised) :
                \/ RejectedByBoth(Cell(Recognised[k], c_start))
                \/ RejectedByBoth(Cell(Recognised[k], c_end)))

\* C10 as stated: call_gemini never raises, so the summary and roadmap
\* handlers always get a string to show.
C10_NeverRaises == llm_ui.kind # "exception"

====
